---- MODULE Spec2Model ----
(***************************************************************************)
(* A model of empyrical/stats.py: the return-metric functions, as pure     *)
(* functions over sequences of floating point values.                      *)
(*                                                                         *)
(* A float is modelled exactly as a pair <<n, d>>:                         *)
(*   d > 0, gcd(n, d) = 1   the finite value n/d                           *)
(*   <<0, 0>>               NaN                                            *)
(*   <<1, 0>>, <<-1, 0>>    +inf, -inf                                     *)
(* Arithmetic follows IEEE 754 / numpy for NaN and the infinities          *)
(* (x/0 is +-inf, 0/0 is NaN, NaN compares false with everything).         *)
(* Rounding is not modelled: finite results are exact rationals.           *)
(*                                                                         *)
(* A value that the code obtains through a square root (a standard         *)
(* deviation, a downside risk, a Sharpe or Sortino ratio) is carried as    *)
(* its signed square, sgn(v) * v^2, which is rational and determines v.    *)
(***************************************************************************)
EXTENDS Integers, Sequences, FiniteSets, TLC

VARIABLES returns, fn, args, out

vars == <<returns, fn, args, out>>

(***************************************************************************)
(* Bounds of the model.                                                    *)
(***************************************************************************)
\* longest return series drawn
MaxLen == 3
\* largest exponent annualization_factor / len(returns) computed exactly
MaxExp == 3
\* longest return series drawn for the benchmark-relative functions
MaxObs == 3

(***************************************************************************)
(* Floats.                                                                 *)
(***************************************************************************)
NaN == <<0, 0>>
PosInf == <<1, 0>>
NegInf == <<-1, 0>>
Zero == <<0, 1>>
One == <<1, 1>>

AbsInt(i) == IF i < 0 THEN -i ELSE i
SignInt(i) == IF i < 0 THEN -1 ELSE IF i = 0 THEN 0 ELSE 1

RECURSIVE GCD(_, _)
GCD(a, b) == IF b = 0 THEN a ELSE GCD(b, a % b)

\* the float n/d for integers n, d (d = 0 gives NaN or an infinity)
Norm(n, d) ==
    IF d = 0 THEN <<SignInt(n), 0>>
    ELSE LET g == GCD(AbsInt(n), AbsInt(d))
             s == SignInt(d)
         IN  <<(s * n) \div g, (s * d) \div g>>

Rat(n, d) == Norm(n, d)
FromInt(n) == <<n, 1>>

IsNaN(x) == x = NaN
IsInf(x) == x = PosInf \/ x = NegInf
IsFinite(x) == x[2] > 0

Neg(x) == <<-x[1], x[2]>>
Abs(x) == <<AbsInt(x[1]), x[2]>>

Add(x, y) ==
    IF IsNaN(x) \/ IsNaN(y) THEN NaN
    ELSE IF IsInf(x) THEN (IF IsInf(y) /\ y # x THEN NaN ELSE x)
    ELSE IF IsInf(y) THEN y
    ELSE Norm(x[1] * y[2] + y[1] * x[2], x[2] * y[2])

Sub(x, y) == Add(x, Neg(y))

\* inf * 0 = NaN, NaN * x = NaN: both fall out of Norm(_, 0)
Mul(x, y) == Norm(x[1] * y[1], x[2] * y[2])

\* numpy float64 division: x/0 = +-inf (x # 0), 0/0 = NaN, x/inf = 0
Div(x, y) ==
    IF IsNaN(x) \/ IsNaN(y) THEN NaN
    ELSE LET s == IF y[1] < 0 THEN -1 ELSE 1
         IN  Norm(s * x[1] * y[2], x[2] * AbsInt(y[1]))

\* x < y; false when either is NaN
Lt(x, y) ==
    IF IsNaN(x) \/ IsNaN(y) THEN FALSE
    ELSE IF IsInf(x) \/ IsInf(y) THEN
        IF IsInf(x) /\ IsInf(y) THEN x[1] < y[1]
        ELSE IF IsInf(x) THEN x = NegInf
        ELSE y = PosInf
    ELSE x[1] * y[2] < y[1] * x[2]

Gt(x, y) == Lt(y, x)
Le(x, y) == ~IsNaN(x) /\ ~IsNaN(y) /\ ~Lt(y, x)
Ge(x, y) == Le(y, x)

\* x ** k for an integer k >= 0, by repeated multiplication
RECURSIVE PowInt(_, _)
PowInt(x, k) == IF k = 0 THEN One ELSE Mul(x, PowInt(x, k - 1))

\* the signed square sgn(x) * x^2
SSq(x) == IF Lt(x, Zero) THEN Neg(Mul(x, x)) ELSE Mul(x, x)

RECURSIVE SumSeq(_)
SumSeq(xs) == IF xs = <<>> THEN Zero ELSE Add(SumSeq(SubSeq(xs, 1, Len(xs) - 1)), xs[Len(xs)])

AnyNaN(xs) == \E i \in 1..Len(xs) : IsNaN(xs[i])

\* a[~np.isnan(a)]
DropNaN(xs) == SelectSeq(xs, LAMBDA x : ~IsNaN(x))

(***************************************************************************)
(* Results of a call: a value, or a raised exception.                      *)
(***************************************************************************)
\* Python's None, for an optional argument that is absent
None == <<>>
Ret(v) == [err |-> "none", val |-> v]
Raise(e) == [err |-> e, val |-> NaN]
Raised(r) == r.err # "none"

(***************************************************************************)
(* numpy array operations used by the metric functions.                    *)
(***************************************************************************)
\* np.cumsum
CumSum(xs) == [i \in 1..Len(xs) |-> SumSeq(SubSeq(xs, 1, i))]

RECURSIVE ProdSeq(_)
ProdSeq(xs) == IF xs = <<>> THEN One ELSE Mul(ProdSeq(SubSeq(xs, 1, Len(xs) - 1)), xs[Len(xs)])

\* cumprod
CumProd(xs) == [i \in 1..Len(xs) |-> ProdSeq(SubSeq(xs, 1, i))]

AddScalar(xs, c) == [i \in 1..Len(xs) |-> Add(xs[i], c)]
SubScalar(xs, c) == [i \in 1..Len(xs) |-> Sub(xs[i], c)]

\* a[np.isnan(a)] = 0.
ZeroFill(xs) == [i \in 1..Len(xs) |-> IF IsNaN(xs[i]) THEN Zero ELSE xs[i]]

\* np.fmax: the maximum, ignoring a NaN operand
FMax(x, y) == IF IsNaN(x) THEN y ELSE IF IsNaN(y) THEN x ELSE IF Lt(x, y) THEN y ELSE x

RECURSIVE FMaxAll(_)
FMaxAll(xs) == IF Len(xs) = 1 THEN xs[1] ELSE FMax(FMaxAll(SubSeq(xs, 1, Len(xs) - 1)), xs[Len(xs)])

\* np.fmax.accumulate
FMaxAccumulate(xs) == [i \in 1..Len(xs) |-> FMaxAll(SubSeq(xs, 1, i))]

\* x ** (1 / k) for the bases the model draws: the non-negative root among the
\* halves 0, 1/2, 1, 3/2, 2
RootCandidates == {Rat(i, 2) : i \in 0..4}
RootDefined(x, k) ==
    /\ IsFinite(k) /\ k[2] = 1 /\ 1 <= k[1] /\ k[1] <= MaxExp
    /\ \E y \in RootCandidates : PowInt(y, k[1]) = x
RootFloat(x, k) == CHOOSE y \in RootCandidates : PowInt(y, k[1]) = x

\* x ** e as the code evaluates it in double precision, for the exponents the
\* model draws: a small integer exponent is exact; an integer exponent of 2000
\* or more overflows to an infinity for |x| >= 3/2 and underflows to zero for
\* |x| <= 1/2; an exponent 1/k is the k-th root, where it is a half.
PowDefined(x, e) ==
    \/ IsNaN(x)
    \/ /\ IsFinite(x) /\ IsFinite(e) /\ e[2] = 1
       /\ \/ (0 <= e[1] /\ e[1] <= MaxExp)
          \/ /\ e[1] >= 2000
             /\ \/ Ge(Abs(x), Rat(3, 2)) \/ Le(Abs(x), Rat(1, 2)) \/ Abs(x) = One
    \/ /\ IsFinite(x) /\ IsFinite(e) /\ e[1] = 1 /\ e[2] > 1
       /\ RootDefined(x, FromInt(e[2]))

PowFloat(x, e) ==
    IF IsNaN(x) THEN NaN
    ELSE IF ~PowDefined(x, e) THEN CHOOSE v \in {} : TRUE
    ELSE IF e[2] > 1 THEN RootFloat(x, FromInt(e[2]))
    ELSE IF e[1] <= MaxExp THEN PowInt(x, e[1])
    ELSE LET odd == e[1] % 2 = 1
             neg == Lt(x, Zero) /\ odd
         IN  IF Abs(x) = One THEN (IF neg THEN Neg(One) ELSE One)
             ELSE IF Le(Abs(x), Rat(1, 2)) THEN Zero
             ELSE IF neg THEN NegInf ELSE PosInf

(***************************************************************************)
(* utils.nanmin, utils.nanmean, utils.nanstd: numpy's NaN-excluding        *)
(* reductions.                                                             *)
(***************************************************************************)
RECURSIVE MinAll(_)
MinAll(xs) ==
    IF Len(xs) = 1 THEN xs[1]
    ELSE LET m == MinAll(SubSeq(xs, 1, Len(xs) - 1))
         IN  IF Lt(xs[Len(xs)], m) THEN xs[Len(xs)] ELSE m

\* the smallest non-NaN element; NaN when there is none
nanmin(xs) == IF DropNaN(xs) = <<>> THEN NaN ELSE MinAll(DropNaN(xs))

\* the mean of the non-NaN elements; NaN (0/0) when there is none
nanmean(xs) == Div(SumSeq(DropNaN(xs)), FromInt(Len(DropNaN(xs))))

\* the SQUARE of nanstd(xs, ddof): the sum of squared deviations of the
\* non-NaN elements from their mean, over (count - ddof); NaN when
\* count - ddof <= 0
nanstd(xs, ddof) ==
    LET ys == DropNaN(xs)
        m == nanmean(xs)
        dev == [i \in 1..Len(ys) |-> Mul(Sub(ys[i], m), Sub(ys[i], m))]
    IN  IF Len(ys) - ddof <= 0 THEN NaN
        ELSE Div(SumSeq(dev), FromInt(Len(ys) - ddof))

(***************************************************************************)
(* periods.py                                                              *)
(***************************************************************************)
DAILY == "daily"
WEEKLY == "weekly"
MONTHLY == "monthly"
YEARLY == "yearly"

ANNUALIZATION_FACTORS ==
    [p \in {DAILY, WEEKLY, MONTHLY, YEARLY} |->
        CASE p = DAILY -> FromInt(252)
          [] p = WEEKLY -> FromInt(52)
          [] p = MONTHLY -> FromInt(12)
          [] p = YEARLY -> FromInt(1)]

(***************************************************************************)
(* stats.py                                                                *)
(***************************************************************************)
_adjust_returns(rs, adjustment_factor) ==
    IF adjustment_factor = Zero THEN rs ELSE SubScalar(rs, adjustment_factor)

\* mutant: the label is looked up before the override is considered
annualization_factor_LabelFirst(period, annualization) ==
    IF period \notin DOMAIN ANNUALIZATION_FACTORS THEN Raise("ValueError")
    ELSE IF annualization = None THEN Ret(ANNUALIZATION_FACTORS[period])
    ELSE Ret(annualization)

annualization_factor(period, annualization) ==
    IF annualization = None
    THEN IF period \in DOMAIN ANNUALIZATION_FACTORS
         THEN Ret(ANNUALIZATION_FACTORS[period])
         ELSE Raise("ValueError")
    ELSE Ret(annualization)

\* mutant: the missing observations are not zero-filled
cum_returns_NoFill(rs, starting_value) ==
    IF Len(rs) < 1 THEN <<>>
    ELSE LET return_cum == AddScalar(CumSum(rs), One)
         IN  IF starting_value = Zero
             THEN SubScalar(return_cum, One)
             ELSE return_cum

cum_returns(rs, starting_value) ==
    IF Len(rs) < 1 THEN <<>>
    ELSE LET filled == IF AnyNaN(rs) THEN ZeroFill(rs) ELSE rs
             df_cum == CumProd(AddScalar(filled, One))
             return_cum == AddScalar(CumSum(filled), One)
         IN  IF starting_value = Zero
             THEN SubScalar(return_cum, One)
             ELSE return_cum

cum_returns_final(rs, starting_value) ==
    IF Len(rs) = 0 THEN NaN
    ELSE LET c == cum_returns(rs, starting_value) IN c[Len(c)]

\* mutant: the value over its running maximum, not the decline below it
max_drawdown_Ratio(rs) ==
    IF Len(rs) < 1 THEN NaN
    ELSE LET cumulative == <<One>> \o cum_returns(rs, FromInt(100))
             max_return == FMaxAccumulate(cumulative)
         IN  nanmin([i \in 1..Len(cumulative) |->
                        Div(cumulative[i], max_return[i])])

max_drawdown(rs) ==
    IF Len(rs) < 1 THEN NaN
    ELSE LET cumulative == <<One>> \o cum_returns(rs, FromInt(100))
             max_return == FMaxAccumulate(cumulative)
         IN  nanmin([i \in 1..Len(cumulative) |->
                        Div(Sub(cumulative[i], max_return[i]), max_return[i])])

annual_return(rs, period, annualization) ==
    IF Len(rs) < 1 THEN Ret(NaN)
    ELSE LET ann_factor == annualization_factor(period, annualization)
         IN  IF Raised(ann_factor) THEN ann_factor
             ELSE LET num_years == Div(FromInt(Len(rs)), ann_factor.val)
                      ending_value == cum_returns_final(rs, One)
                  IN  Ret(Sub(PowFloat(ending_value, Div(One, num_years)), One))

\* mutant: an infinite quotient is returned as it is
calmar_ratio_KeepInf(rs, period, annualization) ==
    LET max_dd == max_drawdown(rs)
    IN  IF Lt(max_dd, Zero)
        THEN LET ar == annual_return(rs, period, annualization)
             IN  IF Raised(ar) THEN ar ELSE Ret(Div(ar.val, Abs(max_dd)))
        ELSE Ret(NaN)

calmar_ratio(rs, period, annualization) ==
    LET max_dd == max_drawdown(rs)
    IN  IF Lt(max_dd, Zero)
        THEN LET ar == annual_return(rs, period, annualization)
             IN  IF Raised(ar) THEN ar
                 ELSE LET temp == Div(ar.val, Abs(max_dd))
                      IN  IF IsInf(temp) THEN Ret(NaN) ELSE Ret(temp)
        ELSE Ret(NaN)

\* mutant: required_return <= -1 is rejected before annualization is looked at
omega_ratio_GuardFirst(rs, risk_free, required_return, annualization) ==
    IF Len(rs) < 2 THEN NaN
    ELSE IF Le(required_return, Neg(One)) THEN NaN
    ELSE LET return_threshold ==
                 IF annualization = One THEN required_return
                 ELSE Sub(RootFloat(Add(One, required_return), annualization), One)
             returns_less_thresh == SubScalar(SubScalar(rs, risk_free), return_threshold)
             numer == SumSeq(SelectSeq(returns_less_thresh, LAMBDA x : Gt(x, Zero)))
             denom == Neg(SumSeq(SelectSeq(returns_less_thresh, LAMBDA x : Lt(x, Zero))))
         IN  IF Gt(denom, Zero) THEN Div(numer, denom) ELSE NaN

omega_ratio(rs, risk_free, required_return, annualization) ==
    IF Len(rs) < 2 THEN NaN
    ELSE IF annualization # One /\ Le(required_return, Neg(One)) THEN NaN
    ELSE LET return_threshold ==
                 IF annualization = One THEN required_return
                 ELSE Sub(RootFloat(Add(One, required_return), annualization), One)
             returns_less_thresh == SubScalar(SubScalar(rs, risk_free), return_threshold)
             numer == SumSeq(SelectSeq(returns_less_thresh, LAMBDA x : Gt(x, Zero)))
             denom == Neg(SumSeq(SelectSeq(returns_less_thresh, LAMBDA x : Lt(x, Zero))))
         IN  IF Gt(denom, Zero) THEN Div(numer, denom) ELSE NaN

\* mutant: the zero standard deviation is not checked for
sharpe_ratio_NoStdGuard(rs, risk_free, period, annualization) ==
    IF Len(rs) < 2 THEN Ret(NaN)
    ELSE LET ann_factor == annualization_factor(period, annualization)
         IN  IF Raised(ann_factor) THEN ann_factor
             ELSE LET returns_risk_adj == DropNaN(_adjust_returns(rs, risk_free))
                  IN  Ret(Mul(Div(SSq(nanmean(returns_risk_adj)),
                                  nanstd(returns_risk_adj, 1)),
                              ann_factor.val))

\* returned as its signed square (the std and sqrt(ann_factor) are roots)
sharpe_ratio(rs, risk_free, period, annualization) ==
    IF Len(rs) < 2 THEN Ret(NaN)
    ELSE LET ann_factor == annualization_factor(period, annualization)
         IN  IF Raised(ann_factor) THEN ann_factor
             ELSE LET returns_risk_adj == DropNaN(_adjust_returns(rs, risk_free))
                  IN  IF nanstd(returns_risk_adj, 1) = Zero THEN Ret(NaN)
                      ELSE Ret(Mul(Div(SSq(nanmean(returns_risk_adj)),
                                       nanstd(returns_risk_adj, 1)),
                                   ann_factor.val))

\* mutant: the losses are zeroed instead of the gains
downside_risk_ZeroLosses(rs, required_return, period, annualization) ==
    IF Len(rs) < 1 THEN Ret(NaN)
    ELSE LET ann_factor == annualization_factor(period, annualization)
         IN  IF Raised(ann_factor) THEN ann_factor
             ELSE LET adj == _adjust_returns(rs, required_return)
                      downside_diff == [i \in 1..Len(adj) |->
                                           IF Lt(adj[i], Zero) THEN Zero ELSE adj[i]]
                      squares == [i \in 1..Len(adj) |->
                                     Mul(downside_diff[i], downside_diff[i])]
                  IN  Ret(Mul(nanmean(squares), ann_factor.val))

\* mutant: the mean is taken over the losing periods only
downside_risk_LosersOnly(rs, required_return, period, annualization) ==
    IF Len(rs) < 1 THEN Ret(NaN)
    ELSE LET ann_factor == annualization_factor(period, annualization)
         IN  IF Raised(ann_factor) THEN ann_factor
             ELSE LET adj == _adjust_returns(rs, required_return)
                      losses == SelectSeq(adj, LAMBDA x : Lt(x, Zero))
                      squares == [i \in 1..Len(losses) |-> Mul(losses[i], losses[i])]
                  IN  Ret(Mul(nanmean(squares), ann_factor.val))

\* returned as its square (it is a root, and never negative)
downside_risk(rs, required_return, period, annualization) ==
    IF Len(rs) < 1 THEN Ret(NaN)
    ELSE LET ann_factor == annualization_factor(period, annualization)
         IN  IF Raised(ann_factor) THEN ann_factor
             ELSE LET adj == _adjust_returns(rs, required_return)
                      downside_diff == [i \in 1..Len(adj) |->
                                           IF Gt(adj[i], Zero) THEN Zero ELSE adj[i]]
                      squares == [i \in 1..Len(adj) |->
                                     Mul(downside_diff[i], downside_diff[i])]
                      mean_squares == nanmean(squares)
                  IN  Ret(Mul(mean_squares, ann_factor.val))

\* returned as its signed square (the downside risk is a root)
sortino_ratio(rs, required_return, period, annualization) ==
    IF Len(rs) < 2 THEN Ret(NaN)
    ELSE LET ann_factor == annualization_factor(period, annualization)
         IN  IF Raised(ann_factor) THEN ann_factor
             ELSE LET adj_returns == _adjust_returns(rs, required_return)
                      average_annual_return == Mul(nanmean(adj_returns), ann_factor.val)
                      annualized_downside_risk ==
                          downside_risk(rs, required_return, period, annualization)
                  IN  Ret(Div(SSq(average_annual_return), annualized_downside_risk.val))

\* mutant: a flat benchmark gives 0.0 instead of dividing by zero
capture_ZeroWhenFlat(rs, factor_returns, period) ==
    LET a == annual_return(rs, period, None)
        b == annual_return(factor_returns, period, None)
    IN  IF Raised(a) THEN a
        ELSE IF Raised(b) THEN b
        ELSE IF b.val = Zero THEN Ret(Zero)
        ELSE Ret(Div(a.val, b.val))

capture(rs, factor_returns, period) ==
    LET a == annual_return(rs, period, None)
        b == annual_return(factor_returns, period, None)
    IN  IF Raised(a) THEN a
        ELSE IF Raised(b) THEN b
        ELSE Ret(Div(a.val, b.val))

\* int() of a float that is not negative
Floor(x) == x[1] \div x[2]

\* ascending order, NaN last (the order of np.sort and np.partition)
sort(xs) == SortSeq(xs, LAMBDA a, b : ~IsNaN(a) /\ (IsNaN(b) \/ Lt(a, b)))

\* np.mean: a NaN entry makes the mean NaN
mean(xs) == Div(SumSeq(xs), FromInt(Len(xs)))

\* np.percentile(a, 100 * cutoff) of a non-empty array, with numpy's linear
\* interpolation between the two order statistics around (n - 1) * cutoff
percentile(xs, cutoff) ==
    IF AnyNaN(xs) THEN NaN
    ELSE LET s == sort(xs)
             virtual_index == Mul(FromInt(Len(xs) - 1), cutoff)
             lo == Floor(virtual_index)
             hi == IF lo + 1 > Len(xs) - 1 THEN lo ELSE lo + 1
             gamma == Sub(virtual_index, FromInt(lo))
         IN  Add(s[lo + 1], Mul(gamma, Sub(s[hi + 1], s[lo + 1])))

value_at_risk(rs, cutoff) == Ret(percentile(rs, cutoff))

\* mutant: the slice is taken from the cutoff index upward
conditional_value_at_risk_UpperSlice(rs, cutoff) ==
    LET cutoff_index == Floor(Mul(FromInt(Len(rs) - 1), cutoff))
    IN  Ret(mean(SubSeq(sort(rs), cutoff_index + 1, Len(rs))))

\* np.partition(returns, k)[:k + 1] holds the k + 1 smallest values, in an
\* order the mean does not depend on
conditional_value_at_risk(rs, cutoff) ==
    LET cutoff_index == Floor(Mul(FromInt(Len(rs) - 1), cutoff))
    IN  Ret(mean(SubSeq(sort(rs), 1, cutoff_index + 1)))

(***************************************************************************)
(* The benchmark-relative functions.  The aligned variants take two arrays *)
(* of one length; the raw ones take two pandas Series, an index of         *)
(* observation dates with the values observed at them.                     *)
(*                                                                         *)
(* Their floats are counted in a unit: 1, or 1e-16 for series of tiny      *)
(* returns.  Sums, means and quotients of floats of one unit are the same  *)
(* in either unit; the comparison of a variance with the absolute          *)
(* threshold 1.0e-30 is not, and is the one place where the unit is read.  *)
(***************************************************************************)
Units == {"1", "1e-16"}

\* np.absolute(x) < 1.0e-30 for a variance x counted in squared units: with
\* the unit 1e-16, x * 1e-32 < 1e-30 is x < 100; with the unit 1, every float
\* of the model that is not zero is far above 1e-30
BelowVarianceThreshold(x, unit) ==
    IF unit = "1e-16" THEN Lt(Abs(x), FromInt(100)) ELSE x = Zero

\* returns - adjustment_factor for an array adjustment_factor of the same length
_adjust_returns_by(rs, adjustment_factor) ==
    [i \in 1..Len(rs) |-> Sub(rs[i], adjustment_factor[i])]

\* mutant: one policy for both degenerate cases, NaN
excess_sharpe_OnePolicy(rs, factor_returns) ==
    IF Len(rs) < 2 THEN NaN
    ELSE LET active_return == _adjust_returns_by(rs, factor_returns)
             tracking_error == nanstd(active_return, 1)
         IN  IF IsNaN(tracking_error) THEN NaN
             ELSE IF tracking_error = Zero THEN NaN
             ELSE Div(SSq(nanmean(active_return)), tracking_error)

\* returned as its signed square (the tracking error is a root)
excess_sharpe(rs, factor_returns) ==
    IF Len(rs) < 2 THEN NaN
    ELSE LET active_return == _adjust_returns_by(rs, factor_returns)
             tracking_error == nanstd(active_return, 1)
         IN  IF IsNaN(tracking_error) THEN Zero
             ELSE IF tracking_error = Zero THEN NaN
             ELSE Div(SSq(nanmean(active_return)), tracking_error)

Series(index, values) == [index |-> index, values |-> values]

\* the dates of a set, in ascending order
RECURSIVE SortedDates(_)
SortedDates(D) ==
    IF D = {} THEN <<>>
    ELSE LET d == CHOOSE x \in D : \A y \in D : x <= y
         IN  <<d>> \o SortedDates(D \ {d})

\* Series.reindex: the value at each date of index, NaN where there is none
Reindex(series, index) ==
    Series(index,
           [k \in 1..Len(index) |->
               IF \E i \in 1..Len(series.index) : series.index[i] = index[k]
               THEN series.values[CHOOSE i \in 1..Len(series.index) :
                                      series.index[i] = index[k]]
               ELSE NaN])

\* pd.concat(many_series, axis=1), column by column: the union of the indices
_aligned_series(a, b) ==
    LET index == SortedDates({a.index[i] : i \in 1..Len(a.index)}
                             \cup {b.index[i] : i \in 1..Len(b.index)})
    IN  <<Reindex(a, index), Reindex(b, index)>>

\* np.cov(joint, ddof=0)[i, j] for the rows xs and ys of joint
cov(xs, ys) ==
    LET mx == mean(xs)
        my == mean(ys)
    IN  mean([i \in 1..Len(xs) |-> Mul(Sub(xs[i], mx), Sub(ys[i], my))])

\* mutant: the covariance is divided by the variance of the strategy returns
beta_aligned_StrategyVariance(rs, factor_returns, risk_free, unit) ==
    IF Len(rs) < 2 \/ Len(factor_returns) < 2 THEN NaN
    ELSE LET adj == _adjust_returns(rs, risk_free)
             valid(i) == ~IsNaN(adj[i]) /\ ~IsNaN(factor_returns[i])
             keep == SelectSeq([i \in 1..Len(adj) |-> i], valid)
             joint == <<[k \in 1..Len(keep) |-> adj[keep[k]]],
                        [k \in 1..Len(keep) |-> factor_returns[keep[k]]]>>
         IN  IF Len(keep) < 2 THEN NaN
             ELSE IF BelowVarianceThreshold(cov(joint[2], joint[2]), unit) THEN NaN
             ELSE Div(cov(joint[1], joint[2]), cov(joint[1], joint[1]))

\* mutant: the quotient is taken whatever the variance of the factor
beta_aligned_NoVarianceGuard(rs, factor_returns, risk_free, unit) ==
    IF Len(rs) < 2 \/ Len(factor_returns) < 2 THEN NaN
    ELSE LET adj == _adjust_returns(rs, risk_free)
             valid(i) == ~IsNaN(adj[i]) /\ ~IsNaN(factor_returns[i])
             keep == SelectSeq([i \in 1..Len(adj) |-> i], valid)
             joint == <<[k \in 1..Len(keep) |-> adj[keep[k]]],
                        [k \in 1..Len(keep) |-> factor_returns[keep[k]]]>>
         IN  IF Len(keep) < 2 THEN NaN
             ELSE Div(cov(joint[1], joint[2]), cov(joint[2], joint[2]))

\* mutant: second moments about the origin instead of about the means
beta_aligned_Uncentred(rs, factor_returns, risk_free, unit) ==
    IF Len(rs) < 2 \/ Len(factor_returns) < 2 THEN NaN
    ELSE LET adj == _adjust_returns(rs, risk_free)
             valid(i) == ~IsNaN(adj[i]) /\ ~IsNaN(factor_returns[i])
             keep == SelectSeq([i \in 1..Len(adj) |-> i], valid)
             joint == <<[k \in 1..Len(keep) |-> adj[keep[k]]],
                        [k \in 1..Len(keep) |-> factor_returns[keep[k]]]>>
             moment(xs, ys) == mean([i \in 1..Len(xs) |-> Mul(xs[i], ys[i])])
         IN  IF Len(keep) < 2 THEN NaN
             ELSE IF BelowVarianceThreshold(cov(joint[2], joint[2]), unit) THEN NaN
             ELSE Div(moment(joint[1], joint[2]), moment(joint[2], joint[2]))

\* the two arrays have one length (np.vstack)
beta_aligned(rs, factor_returns, risk_free, unit) ==
    IF Len(rs) < 2 \/ Len(factor_returns) < 2 THEN NaN
    ELSE LET adj == _adjust_returns(rs, risk_free)
             valid(i) == ~IsNaN(adj[i]) /\ ~IsNaN(factor_returns[i])
             keep == SelectSeq([i \in 1..Len(adj) |-> i], valid)
             joint == <<[k \in 1..Len(keep) |-> adj[keep[k]]],
                        [k \in 1..Len(keep) |-> factor_returns[keep[k]]]>>
         IN  IF Len(keep) < 2 THEN NaN
             ELSE IF BelowVarianceThreshold(cov(joint[2], joint[2]), unit) THEN NaN
             ELSE Div(cov(joint[1], joint[2]), cov(joint[2], joint[2]))

beta(rs, factor_returns, risk_free, unit) ==
    IF Len(rs.values) < 2 \/ Len(factor_returns.values) < 2 THEN NaN
    ELSE LET aligned == _aligned_series(rs, factor_returns)
         IN  beta_aligned(aligned[1].values, aligned[2].values, risk_free, unit)

\* mutant: the factor returns are subtracted as they are, not times beta
alpha_aligned_NoBeta(rs, factor_returns, risk_free, period, annualization, _beta, unit) ==
    IF Len(rs) < 2 THEN Ret(NaN)
    ELSE LET ann_factor == annualization_factor(period, annualization)
         IN  IF Raised(ann_factor) THEN ann_factor
             ELSE LET adj_returns == _adjust_returns(rs, risk_free)
                      adj_factor_returns == _adjust_returns(factor_returns, risk_free)
                      alpha_series == _adjust_returns_by(adj_returns, adj_factor_returns)
                  IN  Ret(Mul(nanmean(alpha_series), ann_factor.val))

alpha_aligned(rs, factor_returns, risk_free, period, annualization, _beta, unit) ==
    IF Len(rs) < 2 THEN Ret(NaN)
    ELSE LET ann_factor == annualization_factor(period, annualization)
         IN  IF Raised(ann_factor) THEN ann_factor
             ELSE LET b == IF _beta = None
                           THEN beta_aligned(rs, factor_returns, risk_free, unit)
                           ELSE _beta
                      adj_returns == _adjust_returns(rs, risk_free)
                      adj_factor_returns == _adjust_returns(factor_returns, risk_free)
                      alpha_series == [i \in 1..Len(rs) |->
                                          Sub(adj_returns[i],
                                              Mul(b, adj_factor_returns[i]))]
                  IN  Ret(Mul(nanmean(alpha_series), ann_factor.val))

alpha(rs, factor_returns, risk_free, period, annualization, _beta, unit) ==
    IF Len(rs.values) < 2 \/ Len(factor_returns.values) < 2 THEN Ret(NaN)
    ELSE LET aligned == _aligned_series(rs, factor_returns)
         IN  alpha_aligned(aligned[1].values, aligned[2].values, risk_free,
                           period, annualization, _beta, unit)

\* the pair (alpha, beta)
alpha_beta_aligned(rs, factor_returns, risk_free, period, annualization, unit) ==
    LET b == beta_aligned(rs, factor_returns, risk_free, unit)
        a == alpha_aligned(rs, factor_returns, risk_free, period, annualization,
                           b, unit)
    IN  IF Raised(a) THEN a ELSE Ret(<<a.val, b>>)

alpha_beta(rs, factor_returns, risk_free, period, annualization, unit) ==
    IF Len(rs.values) < 2 \/ Len(factor_returns.values) < 2 THEN Ret(<<NaN, NaN>>)
    ELSE LET aligned == _aligned_series(rs, factor_returns)
         IN  alpha_beta_aligned(aligned[1].values, aligned[2].values, risk_free,
                                period, annualization, unit)

(***************************************************************************)
(* The inputs drawn.                                                      *)
(***************************************************************************)
\* a return series holds finite returns and missing (NaN) observations
ReturnVals == {Rat(-1, 1), Rat(-1, 2), Zero, Rat(1, 2), One, NaN}

SeqsUpTo(S, n) == UNION {[1..k -> S] : k \in 0..n}

ReturnSeqs == SeqsUpTo(ReturnVals, MaxLen)

StartingValues == {Zero, One, FromInt(2), FromInt(100)}

\* a recognized label each, and one that is not
Periods == {DAILY, WEEKLY, MONTHLY, YEARLY, "hourly"}

\* None, len * k for a small k (so that annualization / len is k), and an
\* annual frequency so high that the annualizing power leaves the double range
Annualizations(n) ==
    {None} \cup {FromInt((IF n = 0 THEN 1 ELSE n) * k) : k \in 1..MaxExp}
           \cup {FromInt(1200000)}

RiskFrees == {Zero, Rat(1, 2)}
RequiredReturns == {FromInt(-2), Neg(One), Rat(-3, 4), Zero, Rat(5, 4)}
FactorSeqs == SeqsUpTo({Rat(-1, 2), Zero, Rat(1, 2)}, 2)

\* the annualizing power of annual_return is one the model evaluates
AnnualReturnDefined(rs, period, annualization) ==
    \/ Len(rs) < 1
    \/ Raised(annualization_factor(period, annualization))
    \/ /\ annualization_factor(period, annualization).val # Zero
       /\ PowDefined(cum_returns_final(rs, One),
                     Div(annualization_factor(period, annualization).val,
                         FromInt(Len(rs))))

(***************************************************************************)
(* What a call does to the caller's array.  A name in a function body      *)
(* refers to the caller's array (shared) or to an array of the function's  *)
(* own; a store through a shared name changes the caller's array.          *)
(***************************************************************************)
\* the parameter `returns` on entry: the caller's array itself
Bind(rs) == [caller |-> rs, local |-> rs, shared |-> TRUE]

\* the name is bound to a newly allocated array xs
Fresh(st, xs) == [caller |-> st.caller, local |-> xs, shared |-> FALSE]

\* ndarray.copy()
copy(st) == Fresh(st, st.local)

\* a[mask] = value, the array becoming xs
Store(st, xs) ==
    [caller |-> IF st.shared THEN xs ELSE st.caller, local |-> xs, shared |-> st.shared]

\* _adjust_returns hands back its argument itself for a zero adjustment
_adjust_returns_array(st, adjustment_factor) ==
    IF adjustment_factor = Zero THEN st
    ELSE Fresh(st, SubScalar(st.local, adjustment_factor))

\* the caller's array after cum_returns(rs, .)
cum_returns_leaves(rs) ==
    IF Len(rs) < 1 THEN rs
    ELSE LET st == Bind(rs)
         IN  IF AnyNaN(st.local)
             THEN Store(copy(st), ZeroFill(st.local)).caller
             ELSE st.caller

\* mutant: the gains are zeroed in the adjusted series itself, not in a copy
downside_risk_leaves_NoCopy(rs, required_return, period, annualization) ==
    IF Len(rs) < 1 \/ Raised(annualization_factor(period, annualization)) THEN rs
    ELSE LET downside_diff == _adjust_returns_array(Bind(rs), required_return)
         IN  Store(downside_diff,
                   [i \in 1..Len(rs) |->
                       IF Gt(downside_diff.local[i], Zero) THEN Zero
                       ELSE downside_diff.local[i]]).caller

\* the caller's array after downside_risk(rs, required_return, period, annualization)
downside_risk_leaves(rs, required_return, period, annualization) ==
    IF Len(rs) < 1 \/ Raised(annualization_factor(period, annualization)) THEN rs
    ELSE LET downside_diff == copy(_adjust_returns_array(Bind(rs), required_return))
         IN  Store(downside_diff,
                   [i \in 1..Len(rs) |->
                       IF Gt(downside_diff.local[i], Zero) THEN Zero
                       ELSE downside_diff.local[i]]).caller

(***************************************************************************)
(* The state machine: a caller holds a return series and calls one         *)
(* function on it; fn, args and out record the call and its outcome.       *)
(***************************************************************************)
Init ==
    /\ returns \in ReturnSeqs
    /\ fn = "init"
    /\ args = [none |-> TRUE]
    /\ out = Ret(NaN)

Call(f, a, r) ==
    /\ fn' = f
    /\ args' = a
    /\ out' = r
    /\ UNCHANGED returns

\* a call that leaves the caller's array as `after`
CallOn(f, a, r, after) ==
    /\ fn' = f
    /\ args' = a
    /\ out' = r
    /\ returns' = after

CallAnnualizationFactor ==
    /\ fn = "init"
    /\ \E period \in Periods, annualization \in Annualizations(Len(returns)) :
           Call("annualization_factor",
                [period |-> period, annualization |-> annualization],
                annualization_factor(period, annualization))

CallCumReturns ==
    /\ fn = "init"
    /\ \E starting_value \in StartingValues :
           CallOn("cum_returns", [starting_value |-> starting_value],
                  Ret(cum_returns(returns, starting_value)),
                  cum_returns_leaves(returns))

CallCumReturnsFinal ==
    /\ fn = "init"
    /\ \E starting_value \in StartingValues :
           Call("cum_returns_final", [starting_value |-> starting_value],
                Ret(cum_returns_final(returns, starting_value)))

CallMaxDrawdown ==
    /\ fn = "init"
    /\ Call("max_drawdown", [none |-> TRUE], Ret(max_drawdown(returns)))

CallAnnualReturn ==
    /\ fn = "init"
    /\ \E period \in Periods, annualization \in Annualizations(Len(returns)) :
           /\ AnnualReturnDefined(returns, period, annualization)
           /\ Call("annual_return",
                   [period |-> period, annualization |-> annualization],
                   annual_return(returns, period, annualization))

CallCalmarRatio ==
    /\ fn = "init"
    /\ \E period \in Periods, annualization \in Annualizations(Len(returns)) :
           /\ AnnualReturnDefined(returns, period, annualization)
           /\ Call("calmar_ratio",
                   [period |-> period, annualization |-> annualization],
                   calmar_ratio(returns, period, annualization))

CallOmegaRatio ==
    /\ fn = "init"
    /\ \E risk_free \in RiskFrees, required_return \in RequiredReturns,
          annualization \in {One, FromInt(2)} :
           /\ \/ annualization = One
              \/ Le(required_return, Neg(One))
              \/ RootDefined(Add(One, required_return), annualization)
           /\ Call("omega_ratio",
                   [risk_free |-> risk_free, required_return |-> required_return,
                    annualization |-> annualization],
                   Ret(omega_ratio(returns, risk_free, required_return, annualization)))

CallSharpeRatio ==
    /\ fn = "init"
    /\ \E risk_free \in RiskFrees, period \in Periods,
          annualization \in {None, FromInt(2)} :
           Call("sharpe_ratio",
                [risk_free |-> risk_free, period |-> period,
                 annualization |-> annualization],
                sharpe_ratio(returns, risk_free, period, annualization))

CallDownsideRisk ==
    /\ fn = "init"
    /\ \E required_return \in RiskFrees, period \in Periods,
          annualization \in {None, FromInt(2)} :
           CallOn("downside_risk",
                  [required_return |-> required_return, period |-> period,
                   annualization |-> annualization],
                  downside_risk(returns, required_return, period, annualization),
                  downside_risk_leaves(returns, required_return, period,
                                       annualization))

CallSortinoRatio ==
    /\ fn = "init"
    /\ \E required_return \in RiskFrees, period \in Periods,
          annualization \in {None, FromInt(2)} :
           Call("sortino_ratio",
                [required_return |-> required_return, period |-> period,
                 annualization |-> annualization],
                sortino_ratio(returns, required_return, period, annualization))

CallCapture ==
    /\ fn = "init"
    /\ \E factor_returns \in FactorSeqs, period \in Periods :
           /\ AnnualReturnDefined(returns, period, None)
           /\ AnnualReturnDefined(factor_returns, period, None)
           /\ Call("capture",
                   [factor_returns |-> factor_returns, period |-> period],
                   capture(returns, factor_returns, period))

\* the percentage cutoff, a fraction in [0, 1]
Cutoffs == {Zero, Rat(1, 20), Rat(1, 4), Rat(1, 2), One}

\* both tail functions index into the array: it is not empty
CallValueAtRisk ==
    /\ fn = "init"
    /\ returns # <<>>
    /\ \E cutoff \in Cutoffs :
           Call("value_at_risk", [cutoff |-> cutoff], value_at_risk(returns, cutoff))

CallConditionalValueAtRisk ==
    /\ fn = "init"
    /\ returns # <<>>
    /\ \E cutoff \in Cutoffs :
           Call("conditional_value_at_risk", [cutoff |-> cutoff],
                conditional_value_at_risk(returns, cutoff))

Next ==
    \/ CallValueAtRisk
    \/ CallConditionalValueAtRisk
    \/ CallAnnualizationFactor
    \/ CallCumReturns
    \/ CallCumReturnsFinal
    \/ CallMaxDrawdown
    \/ CallAnnualReturn
    \/ CallCalmarRatio
    \/ CallOmegaRatio
    \/ CallSharpeRatio
    \/ CallDownsideRisk
    \/ CallSortinoRatio
    \/ CallCapture

Spec == Init /\ [][Next]_vars

(***************************************************************************)
(* The state machine of the benchmark-relative functions: the caller holds *)
(* a return series, observed at the dates 1..len, and calls one function   *)
(* on it and a factor series.                                              *)
(***************************************************************************)
BenchVals == {Neg(One), Zero, NaN}
FactorVals == {Neg(One), Rat(-3, 4), NaN}

\* a factor array aligned with rs: of its length
AlignedFactors(rs) == [1..Len(rs) -> FactorVals]

\* the caller's series as a pandas Series
RangeSeries(rs) == Series([i \in 1..Len(rs) |-> i], rs)

\* the indices of n observation dates, in ascending order
DateSeqs(n) ==
    {d \in [1..n -> 1..(MaxObs + 1)] : \A i \in 1..(n - 1) : d[i] < d[i + 1]}

\* a factor Series with dates of its own, or the caller's series itself
FactorSeries(rs) ==
    UNION {{Series(d, v) : d \in DateSeqs(n), v \in [1..n -> FactorVals]} :
              n \in 0..2}
        \cup {RangeSeries(rs)}

InitBench ==
    /\ returns \in SeqsUpTo(BenchVals, MaxObs)
    /\ fn = "init"
    /\ args = [none |-> TRUE]
    /\ out = Ret(NaN)

CallExcessSharpe ==
    /\ fn = "init"
    /\ \E factor_returns \in AlignedFactors(returns) :
           Call("excess_sharpe", [factor_returns |-> factor_returns],
                Ret(excess_sharpe(returns, factor_returns)))

CallBetaAligned ==
    /\ fn = "init"
    /\ \E factor_returns \in AlignedFactors(returns), risk_free \in RiskFrees,
          unit \in Units :
           Call("beta_aligned",
                [factor_returns |-> factor_returns, risk_free |-> risk_free,
                 unit |-> unit],
                Ret(beta_aligned(returns, factor_returns, risk_free, unit)))

CallAlphaAligned ==
    /\ fn = "init"
    /\ \E factor_returns \in AlignedFactors(returns), risk_free \in RiskFrees,
          period \in {DAILY, "hourly"}, _beta \in {None, One} :
           Call("alpha_aligned",
                [factor_returns |-> factor_returns, risk_free |-> risk_free,
                 period |-> period, annualization |-> None, _beta |-> _beta],
                alpha_aligned(returns, factor_returns, risk_free, period, None,
                              _beta, "1"))

CallAlphaBetaAligned ==
    /\ fn = "init"
    /\ \E factor_returns \in AlignedFactors(returns), risk_free \in RiskFrees,
          annualization \in {None, FromInt(2)} :
           Call("alpha_beta_aligned",
                [factor_returns |-> factor_returns, risk_free |-> risk_free,
                 period |-> DAILY, annualization |-> annualization],
                alpha_beta_aligned(returns, factor_returns, risk_free, DAILY,
                                   annualization, "1"))

CallBeta ==
    /\ fn = "init"
    /\ \E factor_returns \in FactorSeries(returns), unit \in Units :
           Call("beta",
                [factor_returns |-> factor_returns, risk_free |-> Zero,
                 unit |-> unit],
                Ret(beta(RangeSeries(returns), factor_returns, Zero, unit)))

CallAlpha ==
    /\ fn = "init"
    /\ \E factor_returns \in FactorSeries(returns), _beta \in {None, One} :
           Call("alpha",
                [factor_returns |-> factor_returns, risk_free |-> Zero,
                 period |-> DAILY, annualization |-> None, _beta |-> _beta],
                alpha(RangeSeries(returns), factor_returns, Zero, DAILY, None,
                      _beta, "1"))

CallAlphaBeta ==
    /\ fn = "init"
    /\ \E factor_returns \in FactorSeries(returns),
          annualization \in {None, FromInt(2)} :
           Call("alpha_beta",
                [factor_returns |-> factor_returns, risk_free |-> Zero,
                 period |-> DAILY, annualization |-> annualization],
                alpha_beta(RangeSeries(returns), factor_returns, Zero, DAILY,
                           annualization, "1"))

\* capture of two Series: len() and the arithmetic see their values only
CallCaptureSeries ==
    /\ fn = "init"
    /\ \E factor_returns \in FactorSeries(returns) :
           /\ AnnualReturnDefined(returns, YEARLY, None)
           /\ AnnualReturnDefined(factor_returns.values, YEARLY, None)
           /\ Call("capture",
                   [factor_returns |-> factor_returns, period |-> YEARLY],
                   capture(returns, factor_returns.values, YEARLY))

NextBench ==
    \/ CallExcessSharpe
    \/ CallBetaAligned
    \/ CallAlphaAligned
    \/ CallAlphaBetaAligned
    \/ CallBeta
    \/ CallAlpha
    \/ CallAlphaBeta
    \/ CallCaptureSeries

SpecBench == InitBench /\ [][NextBench]_vars

(***************************************************************************)
(* Reference notions the properties are stated with.                       *)
(***************************************************************************)
\* the compounded cumulative growth: element i is the product of (1 + r[j])
\* over j <= i
CompoundedGrowth(rs) == CumProd(AddScalar(rs, One))

ScaleSeq(xs, c) == [i \in 1..Len(xs) |-> Mul(xs[i], c)]

IsConstant(xs) == \A i \in 1..Len(xs) : xs[i] = xs[1]

\* the deepest relative decline of the values vs below their running maximum
DeepestDecline(vs) ==
    nanmin([i \in 1..Len(vs) |->
               Div(Sub(vs[i], FMaxAccumulate(vs)[i]), FMaxAccumulate(vs)[i])])

RecognizedPeriod(p) == p \in {DAILY, WEEKLY, MONTHLY, YEARLY}

\* the annualization a call was given (None for a function without the argument)
ArgAnnualization == IF "annualization" \in DOMAIN args THEN args.annualization ELSE None

ScalarFns ==
    {"cum_returns_final", "max_drawdown", "annual_return", "calmar_ratio",
     "omega_ratio", "sharpe_ratio", "downside_risk", "sortino_ratio", "capture"}

(***************************************************************************)
(* C1: for a non-empty series without missing values, cum_returns with     *)
(* starting_value 0 is, at every position, the compounded product of       *)
(* (1 + r[j]) up to that position minus 1; and cum_returns_final of a      *)
(* constant series r[t] = c of length n is (1 + c)^n - 1.                  *)
(***************************************************************************)
C1_CumReturnsCompounds ==
    /\ (fn = "cum_returns" /\ args.starting_value = Zero
            /\ returns # <<>> /\ ~AnyNaN(returns))
        => out.val = SubScalar(CompoundedGrowth(returns), One)
    /\ (fn = "cum_returns_final" /\ args.starting_value = Zero
            /\ returns # <<>> /\ ~AnyNaN(returns) /\ IsConstant(returns))
        => out.val = Sub(PowInt(Add(One, returns[1]), Len(returns)), One)

(***************************************************************************)
(* C2: for a non-empty series and a starting_value s # 0, cum_returns is,  *)
(* at every position, s times the cumulative growth up to that position.   *)
(***************************************************************************)
C2_CumReturnsScalesWithStart ==
    (fn = "cum_returns" /\ args.starting_value # Zero /\ returns # <<>>)
        => out.val = ScaleSeq(CompoundedGrowth(ZeroFill(returns)), args.starting_value)

(***************************************************************************)
(* C3: annualization_factor returns a given annualization unchanged for    *)
(* every period label, recognized or not, without raising; without one it  *)
(* returns 252, 52, 12, 1 for daily, weekly, monthly, yearly and raises    *)
(* for every other label.                                                  *)
(***************************************************************************)
C3_AnnualizationFactor ==
    fn = "annualization_factor" =>
        /\ args.annualization # None => out = Ret(args.annualization)
        /\ args.annualization = None =>
            /\ args.period = "daily" => out = Ret(FromInt(252))
            /\ args.period = "weekly" => out = Ret(FromInt(52))
            /\ args.period = "monthly" => out = Ret(FromInt(12))
            /\ args.period = "yearly" => out = Ret(FromInt(1))
            /\ args.period \notin {"daily", "weekly", "monthly", "yearly"}
                   => Raised(out)

\* an override given with an unrecognized label, and returned
C3_Witness ==
    /\ fn = "annualization_factor"
    /\ ~RecognizedPeriod(args.period)
    /\ args.annualization # None
    /\ out = Ret(args.annualization)

(***************************************************************************)
(* C4: the only error any metric function raises is for an unrecognized    *)
(* periodicity label given without an annualization; every degenerate      *)
(* numeric input (zero denominator, zero variance, empty series) gives     *)
(* NaN: no call raises otherwise and no call returns an infinity.          *)
(***************************************************************************)
C4_OnlyPeriodicityRaisesNoInfinity ==
    /\ Raised(out) => (~RecognizedPeriod(args.period) /\ ArgAnnualization = None)
    /\ (fn \in ScalarFns /\ ~Raised(out)) => ~IsInf(out.val)

(***************************************************************************)
(* C5: max_drawdown of a non-empty series is <= 0, and exactly 0 when      *)
(* every return is >= 0; max_drawdown of an empty series is NaN.           *)
(***************************************************************************)
C5_MaxDrawdownNonPositive ==
    fn = "max_drawdown" =>
        /\ returns # <<>> => Le(out.val, Zero)
        /\ (returns # <<>> /\ \A i \in 1..Len(returns) : Ge(returns[i], Zero))
               => out.val = Zero
        /\ returns = <<>> => IsNaN(out.val)

\* a series of gains, at least one of them positive, has no drawdown
C5_Witness ==
    /\ fn = "max_drawdown"
    /\ Len(returns) >= 2
    /\ \A i \in 1..Len(returns) : Ge(returns[i], Zero)
    /\ \E i \in 1..Len(returns) : Gt(returns[i], Zero)
    /\ out.val = Zero

(***************************************************************************)
(* C6: max_drawdown of a non-empty series is the minimum of                *)
(* (value - running_max) / running_max over the origin value followed by   *)
(* the compounded cumulative growth of the series.                         *)
(***************************************************************************)
C6_MaxDrawdownOfCompoundedGrowth ==
    (fn = "max_drawdown" /\ returns # <<>>)
        => out.val = DeepestDecline(<<One>> \o CompoundedGrowth(ZeroFill(returns)))

(***************************************************************************)
(* C7: cum_returns of a series with missing (NaN) observations equals      *)
(* cum_returns of the series with each NaN replaced by 0, and no position  *)
(* of the result is NaN.                                                   *)
(***************************************************************************)
C7_CumReturnsZeroFillsNaN ==
    (fn = "cum_returns" /\ AnyNaN(returns)) =>
        /\ out.val = cum_returns(ZeroFill(returns), args.starting_value)
        /\ ~AnyNaN(out.val)

\* a missing observation between or beside returns that are not zero
C7_Witness ==
    /\ fn = "cum_returns"
    /\ AnyNaN(returns)
    /\ \E i \in 1..Len(returns) : ~IsNaN(returns[i]) /\ returns[i] # Zero
    /\ Len(out.val) = Len(returns)
    /\ ~AnyNaN(out.val)

(***************************************************************************)
(* C8: calmar_ratio is annual_return / |max_drawdown| when max_drawdown is *)
(* below 0 and the quotient is finite; it is NaN when max_drawdown is >= 0,*)
(* when max_drawdown is NaN (empty input) and when the quotient is         *)
(* infinite.                                                               *)
(***************************************************************************)
C8_CalmarRatio ==
    fn = "calmar_ratio" =>
        LET max_dd == max_drawdown(returns)
            ar == annual_return(returns, args.period, args.annualization)
        IN  /\ (Lt(max_dd, Zero) /\ ~Raised(ar)
                    /\ IsFinite(Div(ar.val, Abs(max_dd))))
                => out = Ret(Div(ar.val, Abs(max_dd)))
            /\ Ge(max_dd, Zero) => out = Ret(NaN)
            /\ IsNaN(max_dd) => out = Ret(NaN)
            /\ (Lt(max_dd, Zero) /\ ~Raised(ar)
                    /\ IsInf(Div(ar.val, Abs(max_dd))))
                => out = Ret(NaN)

\* a drawdown with an annual return that overflows: the quotient is infinite
C8_Witness ==
    /\ fn = "calmar_ratio"
    /\ Lt(max_drawdown(returns), Zero)
    /\ ~Raised(annual_return(returns, args.period, args.annualization))
    /\ IsInf(Div(annual_return(returns, args.period, args.annualization).val,
                 Abs(max_drawdown(returns))))
    /\ out = Ret(NaN)

(***************************************************************************)
(* C9 as claimed: omega_ratio is NaN for every call with                   *)
(* required_return <= -1, whatever the annualization (1 included), and NaN *)
(* whenever no adjusted return lies strictly below the threshold;          *)
(* otherwise it is the sum of the adjusted returns above the threshold     *)
(* over minus the sum of those below it.                                   *)
(***************************************************************************)
\* the per-period threshold, and the returns measured from it
OmegaThreshold ==
    IF args.annualization = One THEN args.required_return
    ELSE Sub(RootFloat(Add(One, args.required_return), args.annualization), One)
OmegaAdjusted == SubScalar(SubScalar(returns, args.risk_free), OmegaThreshold)
OmegaGains == SumSeq(SelectSeq(OmegaAdjusted, LAMBDA x : Gt(x, Zero)))
OmegaLosses == SumSeq(SelectSeq(OmegaAdjusted, LAMBDA x : Lt(x, Zero)))
OmegaHasLoss == \E i \in 1..Len(returns) : Lt(OmegaAdjusted[i], Zero)

C9_OmegaRatioAsClaimed ==
    fn = "omega_ratio" =>
        IF Le(args.required_return, Neg(One)) THEN IsNaN(out.val)
        ELSE IF ~OmegaHasLoss THEN IsNaN(out.val)
        ELSE out.val = Div(OmegaGains, Neg(OmegaLosses))

(***************************************************************************)
(* C9 amended: omega_ratio is NaN for a series of fewer than 2             *)
(* observations; otherwise it is NaN when required_return <= -1 and        *)
(* annualization # 1 (with annualization = 1 the threshold is              *)
(* required_return itself, whatever its value), and NaN when no adjusted   *)
(* return lies strictly below the threshold; otherwise it is the sum of    *)
(* the adjusted returns above the threshold over minus the sum of those    *)
(* below it.                                                               *)
(***************************************************************************)
C9_OmegaRatio ==
    fn = "omega_ratio" =>
        IF Len(returns) < 2 THEN IsNaN(out.val)
        ELSE IF args.annualization # One /\ Le(args.required_return, Neg(One))
             THEN IsNaN(out.val)
        ELSE IF ~OmegaHasLoss THEN IsNaN(out.val)
        ELSE out.val = Div(OmegaGains, Neg(OmegaLosses))

\* required_return <= -1 with annualization = 1: a ratio is returned
C9_Witness ==
    /\ fn = "omega_ratio"
    /\ args.annualization = One
    /\ Le(args.required_return, Neg(One))
    /\ Len(returns) >= 2
    /\ OmegaHasLoss
    /\ Gt(OmegaGains, Zero)
    /\ out.val = Div(OmegaGains, Neg(OmegaLosses))

PositiveVals == {Rat(1, 2), One, FromInt(2)}

\* the series obtained from rs by replacing its positive entries by positive ones
RECURSIVE PositivePerturbations(_)
PositivePerturbations(rs) ==
    IF rs = <<>> THEN {<<>>}
    ELSE {Append(p, v) :
            p \in PositivePerturbations(SubSeq(rs, 1, Len(rs) - 1)),
            v \in (IF Gt(rs[Len(rs)], Zero) THEN PositiveVals ELSE {rs[Len(rs)]})}

C11_DownsideRiskIgnoresGains ==
    (fn = "downside_risk" /\ args.required_return = Zero) =>
        \A r2 \in PositivePerturbations(returns) :
            downside_risk(r2, Zero, args.period, args.annualization) = out

\* a series with a gain and a loss, and a downside risk that is not zero
C11_Witness ==
    /\ fn = "downside_risk"
    /\ args.required_return = Zero
    /\ \E i \in 1..Len(returns) : Gt(returns[i], Zero)
    /\ \E i \in 1..Len(returns) : Lt(returns[i], Zero)
    /\ ~Raised(out)
    /\ Gt(out.val, Zero)

(***************************************************************************)
(* C12 as claimed: for a non-empty series the square of downside_risk is   *)
(* the annualization factor times the sum of the squares of the adjusted   *)
(* returns below zero, divided by the total number of periods of the       *)
(* series.                                                                 *)
(***************************************************************************)
\* the sum of the squares of the adjusted returns that are below zero
SumSquaresBelowZero(rs, required_return) ==
    LET losses == SelectSeq(SubScalar(rs, required_return), LAMBDA x : Lt(x, Zero))
    IN  SumSeq([i \in 1..Len(losses) |-> Mul(losses[i], losses[i])])

C12_DownsideRiskOverAllPeriods ==
    (fn = "downside_risk" /\ returns # <<>> /\ ~Raised(out)) =>
        out.val = Div(Mul(annualization_factor(args.period, args.annualization).val,
                          SumSquaresBelowZero(returns, args.required_return)),
                      FromInt(Len(returns)))

(***************************************************************************)
(* C12 amended: for a non-empty series the square of downside_risk is the  *)
(* annualization factor times the sum of the squares of the adjusted       *)
(* returns below zero, divided by the number of periods of the series that *)
(* are not missing (NaN): the total number of periods when none is missing,*)
(* and never the number of losing periods.  It is NaN when every period is *)
(* missing.                                                                *)
(***************************************************************************)
C12_DownsideRiskOverObservedPeriods ==
    (fn = "downside_risk" /\ returns # <<>> /\ ~Raised(out)) =>
        out.val = Div(Mul(annualization_factor(args.period, args.annualization).val,
                          SumSquaresBelowZero(returns, args.required_return)),
                      FromInt(Len(DropNaN(returns))))

\* a missing period, a losing period and a period that is neither
C12_Witness ==
    /\ fn = "downside_risk"
    /\ ~Raised(out)
    /\ AnyNaN(returns)
    /\ \E i \in 1..Len(returns) :
           Lt(Sub(returns[i], args.required_return), Zero)
    /\ \E i \in 1..Len(returns) :
           Ge(Sub(returns[i], args.required_return), Zero)
    /\ Gt(out.val, Zero)

(***************************************************************************)
(* C19: for a non-empty series without NaN and a cutoff in [0, 1],         *)
(* conditional_value_at_risk is the mean of the floor((n - 1) * cutoff) + 1*)
(* smallest values, and this is the mean of all the values that are at or  *)
(* below value_at_risk of the same series and cutoff, also when several    *)
(* returns share the value at the cutoff.                                  *)
(***************************************************************************)
\* the k smallest values of xs, smallest first
Smallest(xs, k) == SubSeq(sort(xs), 1, k)

\* the values of xs that are at or below the threshold
AtOrBelow(xs, threshold) == SelectSeq(xs, LAMBDA x : Le(x, threshold))

C19_MeanOfSmallest ==
    (fn = "conditional_value_at_risk" /\ ~AnyNaN(returns)) =>
        out = Ret(mean(Smallest(returns,
                    Floor(Mul(FromInt(Len(returns) - 1), args.cutoff)) + 1)))

C19_CVaRIsMeanAtOrBelowVaR ==
    (fn = "conditional_value_at_risk" /\ ~AnyNaN(returns)) =>
        /\ C19_MeanOfSmallest
        /\ out = Ret(mean(AtOrBelow(returns,
                        value_at_risk(returns, args.cutoff).val)))

(***************************************************************************)
(* C20: cum_returns (also of a series with NaN) and downside_risk (also    *)
(* with required_return = 0, where the adjusted series is the caller's     *)
(* array itself until it is copied) leave every element of the caller's    *)
(* series unchanged.                                                       *)
(***************************************************************************)
C20_InputUnchanged ==
    [][fn' \in {"cum_returns", "downside_risk"} => returns' = returns]_vars

\* after downside_risk with required_return = 0 on a series with a gain and
\* a NaN: the call stores 0.0 over the gain
C20_Witness ==
    /\ fn = "downside_risk"
    /\ args.required_return = Zero
    /\ ~Raised(out)
    /\ AnyNaN(returns)
    /\ \E i \in 1..Len(returns) : Gt(returns[i], Zero)

(***************************************************************************)
(* C16 as claimed: capture(r, r) equals 1.0 for every return series r.     *)
(***************************************************************************)
C16_CaptureOfItselfIsOne ==
    (fn = "capture" /\ args.factor_returns = returns /\ ~Raised(out)) =>
        out = Ret(One)

(***************************************************************************)
(* C16 amended: capture(r, r) equals 1.0 when annual_return(r) is finite   *)
(* and not zero; it is NaN when annual_return(r) is zero, NaN (an empty    *)
(* series) or infinite, and the ValueError of annual_return for an unknown *)
(* period is raised.                                                       *)
(***************************************************************************)
C16_CaptureOfItself ==
    (fn = "capture" /\ args.factor_returns = returns) =>
        LET ar == annual_return(returns, args.period, None)
        IN  IF Raised(ar) THEN out = ar
            ELSE IF IsFinite(ar.val) /\ ar.val # Zero THEN out = Ret(One)
            ELSE out = Ret(NaN)

\* a series with an annual return that is not zero, captured against itself
C16_Witness ==
    /\ fn = "capture"
    /\ args.factor_returns = returns
    /\ out = Ret(One)
    /\ annual_return(returns, args.period, None).val # Zero

(***************************************************************************)
(* Reference statistics the benchmark-relative properties are stated with. *)
(***************************************************************************)
SumOfSquares(xs) == SumSeq([i \in 1..Len(xs) |-> Mul(xs[i], xs[i])])
SumOfProducts(xs, ys) == SumSeq([i \in 1..Len(xs) |-> Mul(xs[i], ys[i])])

\* the sample variance (divisor n - 1); NaN for fewer than 2 values
SampleVariance(xs) ==
    Div(Sub(SumOfSquares(xs),
            Div(Mul(SumSeq(xs), SumSeq(xs)), FromInt(Len(xs)))),
        FromInt(Len(xs) - 1))

\* the population covariance and variance (divisor n)
PopCovariance(xs, ys) ==
    Sub(Div(SumOfProducts(xs, ys), FromInt(Len(xs))), Mul(mean(xs), mean(ys)))
PopVariance(xs) == PopCovariance(xs, xs)

\* the positions where both arrays hold an observation, in order
JointlyObserved(xs, ys) ==
    SortedDates({i \in 1..Len(xs) : ~IsNaN(xs[i]) /\ ~IsNaN(ys[i])})

\* the entries of xs at the positions pos
Pick(xs, pos) == [k \in 1..Len(pos) |-> xs[pos[k]]]

(***************************************************************************)
(* C13: excess_sharpe of fewer than 2 observations is NaN; of 2 or more it *)
(* is 0.0 when the sample standard deviation of the active return is NaN,  *)
(* NaN when it is exactly 0, and otherwise the mean of the active return   *)
(* divided by it (compared here as signed squares).                        *)
(***************************************************************************)
C13_ExcessSharpe ==
    fn = "excess_sharpe" =>
        LET active == DropNaN([i \in 1..Len(returns) |->
                                  Sub(returns[i], args.factor_returns[i])])
        IN  IF Len(returns) < 2 THEN out = Ret(NaN)
            ELSE IF IsNaN(SampleVariance(active)) THEN out = Ret(Zero)
            ELSE IF SampleVariance(active) = Zero THEN out = Ret(NaN)
            ELSE out = Ret(Div(SSq(mean(active)), SampleVariance(active)))

\* two observations or more, of which fewer than two are valid: the 0.0 case
C13_Witness ==
    /\ fn = "excess_sharpe"
    /\ Len(returns) >= 2
    /\ IsNaN(SampleVariance(DropNaN([i \in 1..Len(returns) |->
                                        Sub(returns[i], args.factor_returns[i])])))
    /\ out = Ret(Zero)

(***************************************************************************)
(* C14 as claimed: beta(r, r) = 1 for every r with at least 2 valid        *)
(* observations and a variance that is not zero.                           *)
(***************************************************************************)
C14_BetaOfItselfIsOne ==
    (/\ fn = "beta"
     /\ args.factor_returns = RangeSeries(returns)
     /\ Len(DropNaN(returns)) >= 2
     /\ PopVariance(DropNaN(returns)) # Zero) =>
        out = Ret(One)

(***************************************************************************)
(* C14 amended: for every r with at least 2 valid observations, beta(r, r) *)
(* is 1 when the population variance of the valid observations is at least *)
(* 1e-30, and NaN when it is below 1e-30, zero or not.                     *)
(***************************************************************************)
C14_BetaOfItself ==
    (/\ fn = "beta"
     /\ args.factor_returns = RangeSeries(returns)
     /\ Len(DropNaN(returns)) >= 2) =>
        IF BelowVarianceThreshold(PopVariance(DropNaN(returns)), args.unit)
        THEN out = Ret(NaN)
        ELSE out = Ret(One)

\* a series of varying returns against itself
C14_Witness ==
    /\ fn = "beta"
    /\ args.factor_returns = RangeSeries(returns)
    /\ AnyNaN(returns)
    /\ out = Ret(One)

(***************************************************************************)
(* C15 as claimed: when alpha_beta(r, f, risk_free=0) returns a pair       *)
(* without NaN, mean(r) = alpha / annualization_factor + beta * mean(f),   *)
(* the mean of r over the observations of r that are not missing and the   *)
(* mean of f over those of f.                                              *)
(***************************************************************************)
C15_RegressionIdentityOwnMeans ==
    (/\ fn = "alpha_beta"
     /\ args.risk_free = Zero
     /\ ~Raised(out)
     /\ ~IsNaN(out.val[1]) /\ ~IsNaN(out.val[2])) =>
        mean(DropNaN(returns)) =
            Add(Div(out.val[1],
                    annualization_factor(args.period, args.annualization).val),
                Mul(out.val[2], mean(DropNaN(args.factor_returns.values))))

(***************************************************************************)
(* C15 amended: when alpha_beta(r, f, risk_free=0) returns a pair without  *)
(* NaN, mean(r) = alpha / annualization_factor + beta * mean(f), both      *)
(* means taken over the dates at which r and f are both observed.          *)
(***************************************************************************)
C15_RegressionIdentity ==
    (/\ fn = "alpha_beta"
     /\ args.risk_free = Zero
     /\ ~Raised(out)
     /\ ~IsNaN(out.val[1]) /\ ~IsNaN(out.val[2])) =>
        LET aligned == _aligned_series(RangeSeries(returns), args.factor_returns)
            both == JointlyObserved(aligned[1].values, aligned[2].values)
        IN  mean(Pick(aligned[1].values, both)) =
                Add(Div(out.val[1],
                        annualization_factor(args.period, args.annualization).val),
                    Mul(out.val[2], mean(Pick(aligned[2].values, both))))

\* a pair without NaN for series of which one is observed where the other is
\* not, and a beta other than 0 and 1
C15_Witness ==
    /\ fn = "alpha_beta"
    /\ ~Raised(out)
    /\ ~IsNaN(out.val[1]) /\ ~IsNaN(out.val[2])
    /\ out.val[2] \notin {Zero, One}
    /\ LET aligned == _aligned_series(RangeSeries(returns), args.factor_returns)
       IN  Len(JointlyObserved(aligned[1].values, aligned[2].values))
               < Len(DropNaN(returns))

(***************************************************************************)
(* C17: beta, alpha, alpha_beta and capture of two series with different   *)
(* indices return what their aligned variant (for capture, the quotient of *)
(* the annual returns itself) returns on the two series aligned onto the   *)
(* union of the indices, missing observations filled with NaN.             *)
(***************************************************************************)
C17_RawIsAlignedVariantOfAligned ==
    (/\ fn \in {"beta", "alpha", "alpha_beta", "capture"}
     /\ args.factor_returns.index # RangeSeries(returns).index) =>
        LET aligned == _aligned_series(RangeSeries(returns), args.factor_returns)
            ar == aligned[1].values
            af == aligned[2].values
        IN  CASE fn = "beta" ->
                    out = Ret(beta_aligned(ar, af, args.risk_free, args.unit))
              [] fn = "alpha" ->
                    out = alpha_aligned(ar, af, args.risk_free, args.period,
                                        args.annualization, args._beta, "1")
              [] fn = "alpha_beta" ->
                    out = alpha_beta_aligned(ar, af, args.risk_free, args.period,
                                             args.annualization, "1")
              [] fn = "capture" ->
                    (/\ AnnualReturnDefined(ar, args.period, None)
                     /\ AnnualReturnDefined(af, args.period, None)) =>
                        out = capture(ar, af, args.period)

(***************************************************************************)
(* C18: beta_aligned drops the periods where the adjusted return or the    *)
(* factor return is NaN; it is NaN if fewer than 2 periods remain or if    *)
(* the population variance of the remaining factor returns is below 1e-30  *)
(* in magnitude, and otherwise the population covariance of the two        *)
(* divided by that variance.                                               *)
(***************************************************************************)
C18_BetaAligned ==
    fn = "beta_aligned" =>
        LET adjusted == SubScalar(returns, args.risk_free)
            both == JointlyObserved(adjusted, args.factor_returns)
            xs == Pick(adjusted, both)
            ys == Pick(args.factor_returns, both)
        IN  IF Len(both) < 2 THEN out = Ret(NaN)
            ELSE IF BelowVarianceThreshold(PopVariance(ys), args.unit)
                 THEN out = Ret(NaN)
            ELSE out = Ret(Div(PopCovariance(xs, ys), PopVariance(ys)))

\* a period is dropped and the quotient is taken, and it is not 0 or 1
C18_Witness ==
    /\ fn = "beta_aligned"
    /\ AnyNaN(returns) \/ AnyNaN(args.factor_returns)
    /\ IsFinite(out.val)
    /\ out.val \notin {Zero, One}

(***************************************************************************)
(* C21: beta_aligned does not depend on a constant risk-free rate: for two *)
(* series of one length and any two constants c1, c2,                      *)
(* beta_aligned(r, f, c1) = beta_aligned(r, f, c2).                        *)
(***************************************************************************)
\* the constants the risk-free rate of a call is compared with
RiskFreeShifts == {Neg(One), Zero, Rat(1, 4), Rat(1, 2), FromInt(2)}

C21_BetaAlignedIgnoresRiskFree ==
    fn = "beta_aligned" =>
        \A c \in RiskFreeShifts :
            Ret(beta_aligned(returns, args.factor_returns, c, args.unit)) = out

\* a beta that is a number and not zero, taken with a risk-free rate that is
\* not zero
C21_Witness ==
    /\ fn = "beta_aligned"
    /\ args.risk_free # Zero
    /\ IsFinite(out.val)
    /\ out.val # Zero

====
